---- MODULE Spec2Model ----
(***************************************************************************)
(* Model of folder-compare (src/src/main.rs): two directory trees are      *)
(* indexed by content fingerprint (get_md5_dict, parallel workers sharing  *)
(* a mutex-guarded map), the two indices are reconciled (compare_folders), *)
(* and main runs the requested y/o/u actions.                              *)
(***************************************************************************)
EXTENDS Integers, Sequences, FiniteSets, TLC

\* ---------------------------------------------------------------- bounds
MaxFiles == 2
NumContents == 2
MaxInputLen == 3

\* ------------------------------------------------------------ file system
Dirs == {"d1", "d2"}
NoDir == "nodir"
RootsA == {"d1", NoDir}
RootsB == {"d1", "d2", NoDir}
Paths == Dirs \X (1..MaxFiles)
Contents == 1..NumContents

\* state of one path: no file, a file whose open/read fails, a readable file
NoFile == <<"none">>
Locked == <<"locked">>
Data(c) == <<"data", c>>
FileStates == {NoFile, Locked} \cup {Data(c) : c \in Contents}

\* ------------------------------------------------------------ characters
Chars == {"y", "o", "u", "Y", "O", "U", " ", "x"}
Whitespace == {" ", "\n"}
Actions == {"y", "o", "u"}

VARIABLES
    disk, disk0, dir_a, dir_b,
    pc, pass, result,
    paths, wpc, whash, mutex, map, reported,
    a_map, b_map, b_duplicates, b_unique,
    input, di, attempted, delete_failed,
    same_file, unique_file, ran, fatal,
    line, arg_sel, prompt_sel

vars == <<disk, disk0, dir_a, dir_b, pc, pass, result,
          paths, wpc, whash, mutex, map, reported,
          a_map, b_map, b_duplicates, b_unique,
          input, di, attempted, delete_failed,
          same_file, unique_file, ran, fatal,
          line, arg_sel, prompt_sel>>

fsVars == <<disk, disk0, dir_a, dir_b>>
workerVars == <<paths, wpc, whash, mutex, map, reported>>
indexVars == <<a_map, b_map>>
resultVars == <<b_duplicates, b_unique>>
deleteVars == <<di, attempted, delete_failed>>
outVars == <<same_file, unique_file>>
parseVars == <<line, arg_sel, prompt_sel>>

\* ---------------------------------------------------------------- helpers
EmptyMap == [h \in {} |-> <<>>]
NoHash == <<>>
Free == <<>>
Unset == {"?"}
NotCreated == [created |-> FALSE, lines |-> <<>>]

Range(s) == {s[i] : i \in 1..Len(s)}
Count(x, s) == Cardinality({i \in 1..Len(s) : s[i] = x})
Orderings(S) ==
    {f \in [1..Cardinality(S) -> S] : \A i, j \in 1..Cardinality(S) : i # j => f[i] # f[j]}

\* format!("{:x}", md5::compute(&buffer)): the digest is a function of the content
Md5Hex(c) == <<"md5", c>>

\* calculate_md5: Err when the file cannot be opened or read
CalculateMd5(p) ==
    IF disk[p] = Locked \/ disk[p] = NoFile
    THEN [ok |-> FALSE, hash |-> NoHash]
    ELSE [ok |-> TRUE, hash |-> Md5Hex(disk[p][2])]

\* WalkDir::new(dir).into_iter().filter_map(Result::ok).filter(is_file):
\* traversal errors (a missing root included) are dropped, not returned
WalkDir(dir) == {p \in Paths : p[1] = dir /\ disk[p] # NoFile}

\* map_lock.entry(hash).or_default().push(path.clone())
InsertPath(m, h, p) ==
    IF h \in DOMAIN m THEN [m EXCEPT ![h] = Append(@, p)] ELSE m @@ (h :> <<p>>)

\* file.display()
Display(p) == <<p[1], "/", p[2]>>

RECURSIVE DisplayAll(_)
DisplayAll(s) == IF s = <<>> THEN <<>> ELSE <<Display(Head(s))>> \o DisplayAll(Tail(s))

\* variant: B's paths are appended once per path A lists under the fingerprint
RECURSIVE Duplicates_PerAPath(_, _, _)
Duplicates_PerAPath(am, bm, ord) ==
    IF ord = <<>> THEN <<>>
    ELSE (IF Head(ord) \in DOMAIN bm
          THEN (IF Len(am[Head(ord)]) >= 2 THEN bm[Head(ord)] \o bm[Head(ord)]
                ELSE bm[Head(ord)])
          ELSE <<>>)
         \o Duplicates_PerAPath(am, bm, Tail(ord))

\* variant: A's paths are appended instead of B's
RECURSIVE Duplicates_APaths(_, _, _)
Duplicates_APaths(am, bm, ord) ==
    IF ord = <<>> THEN <<>>
    ELSE (IF Head(ord) \in DOMAIN bm THEN am[Head(ord)] ELSE <<>>)
         \o Duplicates_APaths(am, bm, Tail(ord))

\* first loop of compare_folders, keys of a_map visited in the order ord
RECURSIVE Duplicates(_, _, _)
Duplicates(am, bm, ord) ==
    IF ord = <<>> THEN <<>>
    ELSE (IF Head(ord) \in DOMAIN bm THEN bm[Head(ord)] ELSE <<>>)
         \o Duplicates(am, bm, Tail(ord))

\* variant: B's paths also count as unique when B lists more paths than A
RECURSIVE Uniques_ByCount(_, _, _)
Uniques_ByCount(am, bm, ord) ==
    IF ord = <<>> THEN <<>>
    ELSE (IF Head(ord) \notin DOMAIN am \/ Len(bm[Head(ord)]) > Len(am[Head(ord)])
          THEN bm[Head(ord)] ELSE <<>>)
         \o Uniques_ByCount(am, bm, Tail(ord))

\* second loop of compare_folders, keys of b_map visited in the order ord
RECURSIVE Uniques(_, _, _)
Uniques(am, bm, ord) ==
    IF ord = <<>> THEN <<>>
    ELSE (IF Head(ord) \notin DOMAIN am THEN bm[Head(ord)] ELSE <<>>)
         \o Uniques(am, bm, Tail(ord))

\* ------------------------------------------------------- action selector
ToLowerChar(c) ==
    CASE c = "Y" -> "y" [] c = "O" -> "o" [] c = "U" -> "u" [] OTHER -> c
ToLowercase(s) == [i \in 1..Len(s) |-> ToLowerChar(s[i])]

RECURSIVE TrimStart(_)
TrimStart(s) ==
    IF s # <<>> /\ Head(s) \in Whitespace THEN TrimStart(Tail(s)) ELSE s
RECURSIVE TrimEnd(_)
TrimEnd(s) ==
    IF s # <<>> /\ s[Len(s)] \in Whitespace THEN TrimEnd(SubSeq(s, 1, Len(s) - 1)) ELSE s
Trim(s) == TrimEnd(TrimStart(s))

\* read_line keeps the line terminator
ReadLine(s) == s \o <<"\n">>
\* args.get(3) is used as given
FromArg(s) == s
\* the prompt's line is trimmed and lower-cased
FromPrompt(s) == ToLowercase(Trim(ReadLine(s)))

Contains(s, c) == \E i \in 1..Len(s) : s[i] = c
Selected(s) == {c \in Actions : Contains(s, c)}

RECURSIVE SeqsUpTo(_, _)
SeqsUpTo(S, n) ==
    IF n = 0 THEN {<<>>}
    ELSE LET shorter == SeqsUpTo(S, n - 1)
         IN shorter \cup {Append(s, c) : s \in shorter, c \in S}
InputLines == SeqsUpTo(Chars, MaxInputLen)

\* action strings given to a whole run
ActionLines ==
    {<<>>, <<"y">>, <<"o">>, <<"u">>, <<"y", "o">>, <<"y", "u">>, <<"o", "u">>,
     <<"y", "o", "u">>, <<"Y", "O", "U">>}

\* ------------------------------------------------------------------ Init
TypeOK ==
    /\ disk \in [Paths -> FileStates]
    /\ pc \in {"walk", "hash", "reconcile", "input", "delete", "writeO", "writeU",
               "done", "parse"}

Idle ==
    /\ pass = "A"
    /\ result = "running"
    /\ paths = {}
    /\ wpc = [p \in Paths |-> "idle"]
    /\ whash = [p \in Paths |-> NoHash]
    /\ mutex = Free
    /\ map = EmptyMap
    /\ reported = [p \in Paths |-> 0]
    /\ a_map = EmptyMap
    /\ b_map = EmptyMap
    /\ b_duplicates = <<>>
    /\ b_unique = <<>>
    /\ input = <<>>
    /\ di = 0
    /\ attempted = <<>>
    /\ delete_failed = {}
    /\ same_file = NotCreated
    /\ unique_file = NotCreated
    /\ ran = {}
    /\ fatal = {}
    /\ arg_sel = Unset
    /\ prompt_sel = Unset

Init ==
    /\ dir_a \in RootsA
    /\ dir_b \in RootsB
    /\ disk \in [Paths -> FileStates]
    /\ \A p \in Paths : disk[p] # NoFile =>
          /\ p[1] \in {dir_a, dir_b}
          /\ p[2] > 1 => disk[<<p[1], p[2] - 1>>] # NoFile
    /\ disk0 = disk
    /\ pc = "walk"
    /\ line = <<>>
    /\ Idle

\* ------------------------------------------------------- get_md5_dict
CurrentDir == IF pass = "A" THEN dir_a ELSE dir_b
AllDone == \A p \in paths : wpc[p] = "done"

\* the traversal, the empty shared map
Walk ==
    /\ pc = "walk"
    /\ paths' = WalkDir(CurrentDir)
    /\ wpc' = [p \in Paths |-> IF p \in paths' THEN "todo" ELSE "idle"]
    /\ whash' = [p \in Paths |-> NoHash]
    /\ mutex' = Free
    /\ map' = EmptyMap
    /\ reported' = [p \in Paths |-> 0]
    /\ pc' = "hash"
    /\ UNCHANGED <<fsVars, pass, result, indexVars, resultVars, input, deleteVars,
                   outVars, ran, fatal, parseVars>>

\* variant: an Err ends the scan, the files not yet read are never fingerprinted
CalcMd5_Abort(p) ==
    /\ pc = "hash"
    /\ p \in paths
    /\ wpc[p] = "todo"
    /\ IF CalculateMd5(p).ok
       THEN /\ whash' = [whash EXCEPT ![p] = CalculateMd5(p).hash]
            /\ wpc' = [wpc EXCEPT ![p] = "hashed"]
            /\ UNCHANGED reported
       ELSE /\ reported' = [reported EXCEPT ![p] = @ + 1]
            /\ wpc' = [q \in Paths |-> IF wpc[q] = "todo" THEN "done" ELSE wpc[q]]
            /\ UNCHANGED whash
    /\ UNCHANGED <<fsVars, pc, pass, result, paths, mutex, map, indexVars, resultVars,
                   input, deleteVars, outVars, ran, fatal, parseVars>>

\* one worker's calculate_md5(path); an Err is printed and the worker is done
CalcMd5(p) ==
    /\ pc = "hash"
    /\ p \in paths
    /\ wpc[p] = "todo"
    /\ IF CalculateMd5(p).ok
       THEN /\ whash' = [whash EXCEPT ![p] = CalculateMd5(p).hash]
            /\ wpc' = [wpc EXCEPT ![p] = "hashed"]
            /\ UNCHANGED reported
       ELSE /\ reported' = [reported EXCEPT ![p] = @ + 1]
            /\ wpc' = [wpc EXCEPT ![p] = "done"]
            /\ UNCHANGED whash
    /\ UNCHANGED <<fsVars, pc, pass, result, paths, mutex, map, indexVars, resultVars,
                   input, deleteVars, outVars, ran, fatal, parseVars>>

\* variant: the map is entered without waiting for the lock
LockMap_NoMutex(p) ==
    /\ pc = "hash"
    /\ p \in paths
    /\ wpc[p] = "hashed"
    /\ mutex' = p
    /\ wpc' = [wpc EXCEPT ![p] = "locked"]
    /\ UNCHANGED <<fsVars, pc, pass, result, paths, whash, map, reported, indexVars,
                   resultVars, input, deleteVars, outVars, ran, fatal, parseVars>>

\* map.lock().unwrap()
LockMap(p) ==
    /\ pc = "hash"
    /\ p \in paths
    /\ wpc[p] = "hashed"
    /\ mutex = Free
    /\ mutex' = p
    /\ wpc' = [wpc EXCEPT ![p] = "locked"]
    /\ UNCHANGED <<fsVars, pc, pass, result, paths, whash, map, reported, indexVars,
                   resultVars, input, deleteVars, outVars, ran, fatal, parseVars>>

\* the push under the lock; the guard is dropped at the end of the match arm
InsertPush(p) ==
    /\ pc = "hash"
    /\ p \in paths
    /\ wpc[p] = "locked"
    /\ map' = InsertPath(map, whash[p], p)
    /\ mutex' = Free
    /\ wpc' = [wpc EXCEPT ![p] = "done"]
    /\ UNCHANGED <<fsVars, pc, pass, result, paths, whash, reported, indexVars,
                   resultVars, input, deleteVars, outVars, ran, fatal, parseVars>>

\* for_each has joined every worker; Ok(result_map) goes to compare_folders
Finish ==
    /\ pc = "hash"
    /\ AllDone
    /\ IF pass = "A"
       THEN /\ a_map' = map
            /\ pass' = "B"
            /\ pc' = "walk"
            /\ UNCHANGED b_map
       ELSE /\ b_map' = map
            /\ pc' = "reconcile"
            /\ UNCHANGED <<a_map, pass>>
    /\ UNCHANGED <<fsVars, result, workerVars, resultVars, input, deleteVars,
                   outVars, ran, fatal, parseVars>>

\* ------------------------------------------------------- compare_folders
Reconcile ==
    /\ pc = "reconcile"
    /\ \E ordA \in Orderings(DOMAIN a_map), ordB \in Orderings(DOMAIN b_map) :
          /\ b_duplicates' = Duplicates(a_map, b_map, ordA)
          /\ b_unique' = Uniques(a_map, b_map, ordB)
    /\ pc' = "input"
    /\ UNCHANGED <<fsVars, pass, result, workerVars, indexVars, input, deleteVars,
                   outVars, ran, fatal, parseVars>>

\* ------------------------------------------------------------------ main
InputFromArg ==
    /\ pc = "input"
    /\ \E s \in ActionLines : input' = FromArg(s)
    /\ pc' = "delete"
    /\ UNCHANGED <<fsVars, pass, result, workerVars, indexVars, resultVars,
                   deleteVars, outVars, ran, fatal, parseVars>>

InputFromPrompt ==
    /\ pc = "input"
    /\ \E s \in ActionLines : input' = FromPrompt(s)
    /\ pc' = "delete"
    /\ UNCHANGED <<fsVars, pass, result, workerVars, indexVars, resultVars,
                   deleteVars, outVars, ran, fatal, parseVars>>

\* std::io::stdin().read_line(..)?
InputReadFails ==
    /\ pc = "input"
    /\ pc' = "done"
    /\ result' = "Err"
    /\ fatal' = fatal \cup {"stdin"}
    /\ UNCHANGED <<fsVars, pass, workerVars, indexVars, resultVars, input,
                   deleteVars, outVars, ran, parseVars>>

\* variant: the first failed removal ends the loop
DeleteStep_StopOnFailure ==
    /\ pc = "delete"
    /\ Contains(input, "y")
    /\ di < Len(b_duplicates)
    /\ LET file == b_duplicates[di + 1]
       IN /\ \/ /\ disk[file] # NoFile
                /\ disk' = [disk EXCEPT ![file] = NoFile]
                /\ di' = di + 1
                /\ UNCHANGED delete_failed
             \/ /\ delete_failed' = delete_failed \cup {file}
                /\ di' = Len(b_duplicates)
                /\ UNCHANGED disk
          /\ attempted' = Append(attempted, file)
    /\ UNCHANGED <<disk0, dir_a, dir_b, pc, pass, result, workerVars, indexVars,
                   resultVars, input, outVars, ran, fatal, parseVars>>

\* one iteration of the loop over b_duplicates: remove_file succeeds or fails
DeleteStep ==
    /\ pc = "delete"
    /\ Contains(input, "y")
    /\ di < Len(b_duplicates)
    /\ LET file == b_duplicates[di + 1]
       IN /\ \/ /\ disk[file] # NoFile
                /\ disk' = [disk EXCEPT ![file] = NoFile]
                /\ UNCHANGED delete_failed
             \/ /\ delete_failed' = delete_failed \cup {file}
                /\ UNCHANGED disk
          /\ attempted' = Append(attempted, file)
    /\ di' = di + 1
    /\ UNCHANGED <<disk0, dir_a, dir_b, pc, pass, result, workerVars, indexVars,
                   resultVars, input, outVars, ran, fatal, parseVars>>

\* the loop is over, or there is no 'y'
DeleteDone ==
    /\ pc = "delete"
    /\ Contains(input, "y") => di = Len(b_duplicates)
    /\ ran' = IF Contains(input, "y") THEN ran \cup {"y"} ELSE ran
    /\ pc' = "writeO"
    /\ UNCHANGED fatal
    /\ UNCHANGED <<fsVars, pass, result, workerVars, indexVars, resultVars, input,
                   deleteVars, outVars, parseVars>>

SkipDuplicates ==
    /\ pc = "writeO"
    /\ ~Contains(input, "o")
    /\ pc' = "writeU"
    /\ UNCHANGED <<fsVars, pass, result, workerVars, indexVars, resultVars, input,
                   deleteVars, outVars, ran, fatal, parseVars>>

\* variant: only the duplicates still on disk are listed
WriteDuplicatesOk_StillOnDisk ==
    /\ pc = "writeO"
    /\ Contains(input, "o")
    /\ ran' = ran \cup {"o"}
    /\ same_file' = [created |-> TRUE,
                     lines |-> DisplayAll(SelectSeq(b_duplicates,
                                                    LAMBDA f : disk[f] # NoFile))]
    /\ pc' = "writeU"
    /\ UNCHANGED fatal
    /\ UNCHANGED <<fsVars, pass, result, workerVars, indexVars, resultVars, input,
                   deleteVars, unique_file, parseVars>>

\* the whole list is written
WriteDuplicatesOk ==
    /\ pc = "writeO"
    /\ Contains(input, "o")
    /\ ran' = ran \cup {"o"}
    /\ same_file' = [created |-> TRUE, lines |-> DisplayAll(b_duplicates)]
    /\ pc' = "writeU"
    /\ UNCHANGED fatal
    /\ UNCHANGED <<fsVars, pass, result, workerVars, indexVars, resultVars, input,
                   deleteVars, unique_file, parseVars>>

\* File::create("BSame_files.txt")? fails
WriteDuplicatesCreateFails ==
    /\ pc = "writeO"
    /\ Contains(input, "o")
    /\ ran' = ran \cup {"o"}
    /\ result' = "Err"
    /\ fatal' = fatal \cup {"o"}
    /\ pc' = "done"
    /\ UNCHANGED <<fsVars, pass, workerVars, indexVars, resultVars, input,
                   deleteVars, outVars, parseVars>>

\* the k-th writeln!(..)? fails
WriteDuplicatesWriteFails ==
    /\ pc = "writeO"
    /\ Contains(input, "o")
    /\ \E k \in 1..Len(b_duplicates) :
          same_file' = [created |-> TRUE,
                        lines |-> DisplayAll(SubSeq(b_duplicates, 1, k - 1))]
    /\ ran' = ran \cup {"o"}
    /\ result' = "Err"
    /\ fatal' = fatal \cup {"o"}
    /\ pc' = "done"
    /\ UNCHANGED <<fsVars, pass, workerVars, indexVars, resultVars, input,
                   deleteVars, unique_file, parseVars>>

SkipUnique ==
    /\ pc = "writeU"
    /\ ~Contains(input, "u")
    /\ result' = "Ok"
    /\ pc' = "done"
    /\ UNCHANGED <<fsVars, pass, workerVars, indexVars, resultVars, input,
                   deleteVars, outVars, ran, fatal, parseVars>>

WriteUniqueOk ==
    /\ pc = "writeU"
    /\ Contains(input, "u")
    /\ ran' = ran \cup {"u"}
    /\ unique_file' = [created |-> TRUE, lines |-> DisplayAll(b_unique)]
    /\ result' = "Ok"
    /\ pc' = "done"
    /\ UNCHANGED fatal
    /\ UNCHANGED <<fsVars, pass, workerVars, indexVars, resultVars, input,
                   deleteVars, same_file, parseVars>>

WriteUniqueCreateFails ==
    /\ pc = "writeU"
    /\ Contains(input, "u")
    /\ ran' = ran \cup {"u"}
    /\ result' = "Err"
    /\ fatal' = fatal \cup {"u"}
    /\ pc' = "done"
    /\ UNCHANGED <<fsVars, pass, workerVars, indexVars, resultVars, input,
                   deleteVars, outVars, parseVars>>

WriteUniqueWriteFails ==
    /\ pc = "writeU"
    /\ Contains(input, "u")
    /\ \E k \in 1..Len(b_unique) :
          unique_file' = [created |-> TRUE,
                          lines |-> DisplayAll(SubSeq(b_unique, 1, k - 1))]
    /\ ran' = ran \cup {"u"}
    /\ result' = "Err"
    /\ fatal' = fatal \cup {"u"}
    /\ pc' = "done"
    /\ UNCHANGED <<fsVars, pass, workerVars, indexVars, resultVars, input,
                   deleteVars, same_file, parseVars>>

Next ==
    \/ Walk
    \/ \E p \in Paths : CalcMd5(p)
    \/ \E p \in Paths : LockMap(p)
    \/ \E p \in Paths : InsertPush(p)
    \/ Finish
    \/ Reconcile
    \/ InputFromArg
    \/ InputFromPrompt
    \/ InputReadFails
    \/ DeleteStep
    \/ DeleteDone
    \/ SkipDuplicates
    \/ WriteDuplicatesOk
    \/ WriteDuplicatesCreateFails
    \/ WriteDuplicatesWriteFails
    \/ SkipUnique
    \/ WriteUniqueOk
    \/ WriteUniqueCreateFails
    \/ WriteUniqueWriteFails

Spec == Init /\ [][Next]_vars

\* --------------------------------------- the action selector on its own
InitInput ==
    /\ dir_a = NoDir
    /\ dir_b = NoDir
    /\ disk = [p \in Paths |-> NoFile]
    /\ disk0 = disk
    /\ pc = "parse"
    /\ line \in InputLines
    /\ Idle

\* s given as the third command-line argument
SelectFromArg ==
    /\ pc = "parse"
    /\ arg_sel = Unset
    /\ arg_sel' = Selected(FromArg(line))
    /\ UNCHANGED <<fsVars, pc, pass, result, workerVars, indexVars, resultVars,
                   input, deleteVars, outVars, ran, fatal, line, prompt_sel>>

\* s typed at the prompt
SelectFromPrompt ==
    /\ pc = "parse"
    /\ prompt_sel = Unset
    /\ prompt_sel' = Selected(FromPrompt(line))
    /\ UNCHANGED <<fsVars, pc, pass, result, workerVars, indexVars, resultVars,
                   input, deleteVars, outVars, ran, fatal, line, arg_sel>>

NextInput == SelectFromArg \/ SelectFromPrompt

SpecInput == InitInput /\ [][NextInput]_vars

\* ------------------------------------------------------------ properties
\* compare_folders has just returned (b_duplicates, b_unique)
Reconciled == pc = "input"
AfterDelete == pc \in {"writeO", "writeU"} \/ (pc = "done" /\ "stdin" \notin fatal)

\* positions of path p in index m
Occurrences(m, p) ==
    Cardinality({x \in UNION {{h} \X (1..Len(m[h])) : h \in DOMAIN m} :
                    m[x[1]][x[2]] = p})
PathsIn(m) == UNION {Range(m[h]) : h \in DOMAIN m}
Under(dir) == {p \in Paths : p[1] = dir}
\* the fingerprint -> path set mapping of the files the pass walks
ExpectedSets(h) ==
    {p \in paths : disk[p] \notin {NoFile, Locked} /\ Md5Hex(disk[p][2]) = h}

\* C1: after compare_folders every path of B's index occurs exactly once in
\* b_duplicates and b_unique taken together, and no other path occurs in them
C1_Partition ==
    Reconciled =>
        \A p \in Paths :
            /\ Occurrences(b_map, p) <= 1
            /\ Count(p, b_duplicates) + Count(p, b_unique) = Occurrences(b_map, p)

\* C1 witness: A lists two paths under one fingerprint, B has a duplicate and
\* a unique path
C1_Witness ==
    /\ pc = "input"
    /\ \E h \in DOMAIN a_map : Len(a_map[h]) >= 2
    /\ b_duplicates # <<>>
    /\ b_unique # <<>>

\* C2: a path listed in B's index under fingerprint h is in b_duplicates iff h
\* is a key of A's index and in b_unique iff it is not, whatever the counts
C2_ByPresence ==
    Reconciled =>
        \A h \in DOMAIN b_map : \A i \in 1..Len(b_map[h]) :
            /\ b_map[h][i] \in Range(b_duplicates) <=> h \in DOMAIN a_map
            /\ b_map[h][i] \in Range(b_unique) <=> h \notin DOMAIN a_map

\* C2 witness: A has one path and B two paths under the same fingerprint
C2_Witness ==
    /\ pc = "input"
    /\ \E h \in DOMAIN a_map \cap DOMAIN b_map :
          Len(a_map[h]) = 1 /\ Len(b_map[h]) = 2
    /\ Len(b_duplicates) = 2
    /\ b_unique = <<>>

\* C3: with a root that does not exist the indexing call yields no index, the
\* run never reaches reconciliation or an action and ends with an error
C3_UnreadableRootFatal ==
    /\ (pc # "parse" /\ dir_a = NoDir) => (pass = "A" /\ pc \in {"walk", "hash", "done"})
    /\ (pc # "parse" /\ dir_b = NoDir) => pc \in {"walk", "hash", "done"}
    /\ (pc = "done" /\ NoDir \in {dir_a, dir_b}) => (result = "Err" /\ ran = {})

\* C4: when every worker of a pass is done the index holds exactly the readable
\* walked paths, once each, every unreadable walked file was reported exactly
\* once, and the pass hands its index on (it never returns an error)
C4_ReadFailureIsolated ==
    (pc = "hash" /\ AllDone) =>
        /\ \A p \in Paths :
              /\ Occurrences(map, p) = (IF p \in paths /\ disk[p] # Locked THEN 1 ELSE 0)
              /\ reported[p] = (IF p \in paths /\ disk[p] = Locked THEN 1 ELSE 0)
        /\ ENABLED Finish
        /\ result = "running"

\* C4 witness: a pass over a directory with a readable and an unreadable file
C4_Witness ==
    /\ pc = "hash"
    /\ AllDone
    /\ \E p, q \in paths : disk[p] = Locked /\ disk[q] \notin {NoFile, Locked}

\* C5: at most one worker holds the map lock, and when all workers are done the
\* index lists every fingerprinted path once, under the fingerprint of its own
\* content, so the fingerprint -> path set mapping is the same for every order
C5_NoLostInsertions ==
    /\ Cardinality({p \in Paths : wpc[p] = "locked"}) <= 1
    /\ \A p \in Paths : wpc[p] = "locked" => mutex = p
    /\ (pc = "hash" /\ AllDone) =>
          /\ \A p \in paths : whash[p] # NoHash =>
                /\ Occurrences(map, p) = 1
                /\ whash[p] \in DOMAIN map
                /\ p \in Range(map[whash[p]])
                /\ whash[p] = Md5Hex(disk[p][2])
          /\ DOMAIN map = {h \in {Md5Hex(c) : c \in Contents} : ExpectedSets(h) # {}}
          /\ \A h \in DOMAIN map : Range(map[h]) = ExpectedSets(h)

\* C5 witness: two workers inserted under the same fingerprint
C5_Witness ==
    /\ pc = "hash"
    /\ AllDone
    /\ \E h \in DOMAIN map : Len(map[h]) >= 2

\* C6: when 'o' and 'u' are both selected and writing the duplicate list fails,
\* the 'u' action is still attempted
C6_WriteFailureIsolated ==
    (pc = "done" /\ Contains(input, "o") /\ Contains(input, "u") /\ "o" \in fatal)
        => "u" \in ran

\* what a run that ended without fatal error has done for each selected action
RanAsSelected ==
    /\ "y" \in ran <=> Contains(input, "y")
    /\ "o" \in ran <=> Contains(input, "o")
    /\ "u" \in ran <=> Contains(input, "u")
    /\ same_file = (IF Contains(input, "o")
                    THEN [created |-> TRUE, lines |-> DisplayAll(b_duplicates)]
                    ELSE NotCreated)
    /\ unique_file = (IF Contains(input, "u")
                      THEN [created |-> TRUE, lines |-> DisplayAll(b_unique)]
                      ELSE NotCreated)

\* C7 as stated: a run without fatal failure runs exactly the selected actions,
\* and with "you" every duplicate file is gone from disk while the two lists
\* hold b_duplicates and b_unique in order
C7_AllActionsRun_AsStated ==
    (pc = "done" /\ result = "Ok") =>
        /\ RanAsSelected
        /\ input = <<"y", "o", "u">> =>
              \A p \in Range(b_duplicates) : disk[p] = NoFile

\* C7 amended: as above, but with "you" the duplicate files that are gone are
\* those whose removal did not fail
C7_AllActionsRun ==
    (pc = "done" /\ result = "Ok") =>
        /\ RanAsSelected
        /\ Contains(input, "y") =>
              \A p \in Range(b_duplicates) \ delete_failed : disk[p] = NoFile

\* C7 witness: "you" with a duplicate and a unique file and no failure
C7_Witness ==
    /\ pc = "done"
    /\ result = "Ok"
    /\ input = <<"y", "o", "u">>
    /\ b_duplicates # <<>>
    /\ b_unique # <<>>
    /\ delete_failed = {}
    /\ \A p \in Range(b_duplicates) : disk[p] = NoFile /\ Display(p) \in Range(same_file.lines)

C9_SameSelection ==
    (arg_sel # Unset /\ prompt_sel # Unset) => arg_sel = prompt_sel

\* C10: removal is attempted only for paths of b_duplicates and nothing else
\* changes on disk; every path of b_unique still exists; when the roots share
\* no path every file indexed under A still exists; without 'y' nothing changes
C10_DeleteFrame ==
    /\ Range(attempted) \subseteq Range(b_duplicates)
    /\ \A p \in Paths : disk[p] # disk0[p] => p \in Range(attempted)
    /\ \A p \in Range(b_unique) : disk[p] # NoFile
    /\ Under(dir_a) \cap Under(dir_b) = {} =>
          \A p \in Paths : (p \in PathsIn(a_map) \/ p \in Under(dir_a)) => disk[p] = disk0[p]
    /\ ~Contains(input, "y") => disk = disk0

\* C10 witness: a run with 'y' removed a duplicate, B has a unique file, A is
\* a different root with an indexed file
C10_Witness ==
    /\ pc = "done"
    /\ Contains(input, "y")
    /\ disk # disk0
    /\ b_unique # <<>>
    /\ a_map # EmptyMap
    /\ Under(dir_a) \cap Under(dir_b) = {}

====
